---- MODULE Spec2Model ----
(***************************************************************************)
(* Model of the MyGAP scraper service: the cached read endpoints of        *)
(* main.py (GET /mygap/data/<source>), the batch runner of scheduler.py    *)
(* (ScrapingScheduler.run_all_scrapers / run_scraping_job /                *)
(* run_single_scraper), the scheduler's life (start_background_scheduler,  *)
(* stop_scheduler, the run_scheduler loop thread and the jobs it runs),    *)
(* and the scheduler endpoints of main.py (status, health, manual          *)
(* triggers and the threads they start).                                   *)
(*                                                                         *)
(* Time is a discrete clock `now`, counted in ticks; one day is            *)
(* TicksPerDay ticks.  A file's mtime is the tick at which it was written; *)
(* files of one source are kept in the order their writes completed, so    *)
(* among files written in the same tick the later one in the sequence has  *)
(* the greater (sub-tick) modification time.                               *)
(***************************************************************************)
EXTENDS Integers, Sequences, FiniteSets, TLC

VARIABLES
    now,      \* the wall clock (datetime.now()), in ticks
    store,    \* the snapshot files on disk: source -> sequence of files
    rd,       \* the read handler running on the event loop (its locals)
    resp,     \* the response the last step sent to a read caller, if it sent one
    prev,     \* the latest completed read: what it served, for comparing reads
    batch,    \* the thread executing run_all_scrapers (its locals)
    single,   \* the thread executing run_single_scraper (its locals)
    sched,    \* the ScrapingScheduler object and the schedule library's job list
    loops,    \* the threads created to execute run_scheduler, in creation order
    caller,   \* the thread calling start_scheduler / stop_scheduler (its position)
    tasks,    \* the threads the manual-trigger endpoints started and that still run
    call,     \* the scheduler call or request the last step completed, if it did
    hist      \* what the calls so far amount to, for stating properties

vars == <<now, store, rd, resp, prev, batch, single, sched, loops, caller, tasks, call, hist>>

----------------------------------------------------------------------------
(* Bounds of the model *)

TicksPerDay == 2    \* clock resolution: ticks in one day
MaxTime == 3        \* the clock stops advancing here
MaxFiles == 2       \* files on disk, all sources together
MaxEndpoints == 1   \* read endpoints called: those of the first sources of the registry
MaxThreads == 2     \* loop threads the scheduler creates in all
MaxTasks == 2       \* manual-trigger threads running at once

-----------
(* The source registry: scheduler.py, ScrapingScheduler.__init__ *)

RegistrySorted == <<"AM", "Organic", "PF", "TBM", "Tanaman">>

Registry == <<"TBM", "PF", "AM", "Organic", "Tanaman">>

Sources == {Registry[i] : i \in DOMAIN Registry}

N == Len(Registry)

\* timedelta(days=1)
Threshold == 1 * TicksPerDay

----------------------------------------------------------------------------
(* JSON values and fetch results.  A value is [kind, recs]:                *)
(*   none    Python None                                                   *)
(*   list    a list of records (recs)                                      *)
(*   data    an object with a 'data' key holding the list recs             *)
(*   obj     a non-empty object without a 'data' key                       *)
(*   null    the JSON document null                                        *)
(*   corrupt a file json.load cannot parse                                 *)
(*   raise   (fetch results only) the fetch raised an exception            *)

Val(kind, recs) == [kind |-> kind, recs |-> recs]

None == Val("none", <<>>)

\* The record lists a source's website can serve at time t: nothing, or one
\* record whose content is the site's version at t.
RecordLists(t) == {<<>>, <<t>>}

\* extract_mygap_*_data(save_to_file=...): a list of records, None on
\* failure, or an exception.
FetchOutcomes(t) ==
    {Val("none", <<>>), Val("raise", <<>>)} \cup {Val("list", r) : r \in RecordLists(t)}

\* The two snapshot file shapes the loader accepts.
SnapshotBodies(recs) == {Val("list", recs), Val("data", recs)}

\* What another writer can leave in a snapshot file at time t: an unparsable
\* file, the document null, an object without a 'data' key, or a snapshot of
\* the site's records.
FileBodies(t) ==
    {Val("corrupt", <<>>), Val("null", <<>>), Val("obj", <<>>), Val("list", <<t>>)}

\* A snapshot file: name is the timestamp in its file name, mtime its
\* modification time.  A file written in one go has both from the same clock
\* reading.
File(mtime, body) == [name |-> mtime, mtime |-> mtime, body |-> body]

\* The content of a file whose write is in progress: some beginning of the
\* JSON text of the records recs, which json.load cannot parse.
Partial(recs) == Val("corrupt", recs)

IsPartial(file) == file.body.kind = "corrupt" /\ file.body.recs /= <<>>

\* save_to_file=True: the fetch writes its records as a new snapshot stamped now.
Persist(files, t, body) == Append(files, File(t, body))

TotalFiles == LET Sum[i \in 0..N] == IF i = 0 THEN 0 ELSE Sum[i - 1] + Len(store[Registry[i]])
              IN Sum[N]

----------------------------------------------------------------------------
(* The read path: main.py, get_mygap_data and its four copies *)

LatestIndexByName(files) ==
    CHOOSE i \in DOMAIN files :
        \A j \in DOMAIN files :
            \/ files[j].name < files[i].name
            \/ files[j].name = files[i].name /\ j <= i

\* max(json_files, key=os.path.getmtime)
LatestIndex(files) ==
    CHOOSE i \in DOMAIN files :
        \A j \in DOMAIN files :
            \/ files[j].mtime < files[i].mtime
            \/ files[j].mtime = files[i].mtime /\ j <= i

IsFreshLe(file_age) == file_age <= Threshold

\* if file_age < timedelta(days=1)
IsFresh(file_age) == file_age < Threshold

LoadCacheListOnly(body) == IF body.kind = "list" THEN body ELSE None

LoadCacheLenient(body) ==
    IF body.kind \in {"corrupt", "list", "data"} THEN Val("list", body.recs) ELSE None

\* the try block reading latest_file: json.load, then the three-way shape test
LoadCache(body) ==
    IF body.kind = "corrupt" THEN None                        \* except: raw_data = None
    ELSE IF body.kind = "list" THEN body                      \* isinstance(file_data, list)
    ELSE IF body.kind = "data" THEN Val("list", body.recs)    \* file_data['data']
    ELSE IF body.kind = "null" THEN None                      \* else: raw_data = file_data (None)
    ELSE body                                                 \* else: raw_data = file_data

NeedsFetchFalsy(raw_data) == raw_data = None \/ raw_data.recs = <<>>

\* if raw_data is None
NeedsFetch(raw_data) == raw_data = None

\* if raw_data is None (after the fetch): raise HTTPException(500)
FetchFailed(raw_data) == raw_data = None

\* The read endpoints the model calls.  The five handlers are copies of one
\* another that differ in the glob prefix and the fetch function.
Endpoints == {Registry[i] : i \in 1..MaxEndpoints}

IdleRead ==
    [pc |-> "idle", src |-> "", latest_file |-> 0, file_age |-> -1, save_to_file |-> FALSE]

NoResponse ==
    [status |-> "none", src |-> "", records |-> <<>>, data_source |-> "",
     timestamp |-> -1, latest_file |-> 0, file_age |-> -1, fetch |-> "not called",
     after |-> ""]

NoPrev == [src |-> "", snap |-> 0, nfiles |-> 0, records |-> <<>>, origin |-> ""]

\* "Convert raw data to Pydantic models" and build the response.  (after is
\* filled in by the monitor: where the read before this one took its records
\* from, when that read served the snapshot this one finds unchanged.)  A raw_data
\* that is not a list of mappings raises inside the loop, and the outer
\* except turns that into HTTP 500.
Respond(r, raw_data, data_source, fetch) ==
    [status |-> IF raw_data.kind = "list" THEN "ok" ELSE "error",
     src |-> r.src,
     records |-> IF raw_data.kind = "list" THEN raw_data.recs ELSE <<>>,
     data_source |-> data_source,
     timestamp |-> now,
     latest_file |-> r.latest_file,
     file_age |-> r.file_age,
     fetch |-> fetch,
     after |-> ""]

FetchFailureFallback(r, fetch) ==
    IF r.latest_file > 0
    THEN Respond(r, LoadCacheListOnly(store[r.src][r.latest_file].body), "cache", fetch)
    ELSE Respond(r, None, "fresh", fetch)

\* The fetch returned None: logger.error and raise HTTPException(500); the
\* file located earlier is not consulted again.
FetchFailureResponse(r, fetch) == Respond(r, None, "fresh", fetch)

ReadSaveToFileOff == FALSE

\* extract_mygap_*_data(save_to_file=True)
ReadSaveToFile == TRUE

\* What a fetch leaves on disk: with save_to_file it writes the records it
\* returns as a new snapshot stamped with the current time, in one of the two
\* shapes the loader accepts; a failed fetch writes nothing.
FetchEffect(files, o, shape, save_to_file) ==
    IF o.kind = "list" /\ save_to_file THEN Persist(files, now, Val(shape, o.recs)) ELSE files

\* What the monitor remembers of a completed read that served a snapshot:
\* the snapshot (snap, an index into the source's files), the number of files
\* the source had then, the records returned and where they came from.
Served(r, files) ==
    IF r.status /= "ok" THEN NoPrev
    ELSE [src |-> r.src,
          snap |-> IF r.data_source = "cache" THEN r.latest_file ELSE Len(files),
          nfiles |-> Len(files),
          records |-> r.records,
          origin |-> r.data_source]

\* The handler up to the fetch call: locate the latest file, decide freshness,
\* load it; answer from the cache, or call the fetch with save_to_file=True.
ReadBegin(s) ==
    /\ rd.pc = "idle"
    /\ LET files == store[s]
           found == files /= <<>>
           latest_file == IF found THEN LatestIndex(files) ELSE 0
           file_age == IF found THEN now - files[latest_file].mtime ELSE -1
           raw_data == IF found /\ IsFresh(file_age)
                       THEN LoadCache(files[latest_file].body)
                       ELSE None
           loc == [pc |-> "fetching", src |-> s, latest_file |-> latest_file,
                   file_age |-> file_age, save_to_file |-> ReadSaveToFile]
       IN IF NeedsFetch(raw_data)
          THEN /\ TotalFiles < MaxFiles
               /\ rd' = loc
               /\ resp' = NoResponse
               /\ UNCHANGED prev
          ELSE /\ rd' = IdleRead
               /\ resp' = [Respond(loc, raw_data, "cache", "not called") EXCEPT
                              !.after = IF prev.src = s /\ prev.snap = latest_file
                                           /\ prev.nfiles = Len(files)
                                        THEN prev.origin ELSE ""]
               /\ prev' = Served(resp', files)
    /\ UNCHANGED <<now, store, batch, single, sched, loops, caller, tasks, call, hist>>

AfterFetchRetry(r, o) == IF FetchFailed(o) \/ o.kind = "raise" THEN r ELSE IdleRead

\* After the one fetch call the handler raises or builds its response and
\* returns: there is no loop around the call and no second call.
AfterFetch(r, o) == IdleRead

\* The fetch returns (or raises) and the handler finishes.
ReadFetchReturn(o, shape) ==
    /\ rd.pc = "fetching"
    /\ store' = [store EXCEPT ![rd.src] = FetchEffect(@, o, shape, rd.save_to_file)]
    /\ resp' = IF o.kind = "raise"
               THEN Respond(rd, None, "cache", "raised")      \* the outer except: HTTP 500
               ELSE IF FetchFailed(o)
               THEN FetchFailureResponse(rd, "returned None")
               ELSE Respond(rd, o, "fresh", "returned records")
    /\ prev' = Served(resp', store'[rd.src])
    /\ rd' = AfterFetch(rd, o)
    /\ UNCHANGED <<now, batch, single, sched, loops, caller, tasks, call, hist>>

\* Python None as a next run time
NoNextRun == -1

\* What a step reports of the scheduler call or request it completed.
NoCall ==
    [op |-> "none", arg |-> "", code |-> 0, result |-> "", success |-> FALSE,
     running |-> FALSE, next_run |-> NoNextRun, available_scrapers |-> <<>>,
     time |-> -1]

----------------------------------------------------------------------------
(* The environment *)

Tick ==
    /\ now < MaxTime
    /\ now' = now + 1
    /\ resp' = NoResponse
    /\ call' = NoCall
    /\ UNCHANGED <<store, rd, prev, batch, single, sched, loops, caller, tasks, hist>>

\* The clock in the scheduler's specification runs one tick further than
\* MaxTime, which with two ticks a day is the second midnight.
SchedHorizon == MaxTime + 1

SchedTick ==
    /\ now < SchedHorizon
    /\ now' = now + 1
    /\ resp' = NoResponse
    /\ call' = NoCall
    /\ UNCHANGED <<store, rd, prev, batch, single, sched, loops, caller, tasks, hist>>

\* Another writer (a scheduler job, an operator, an interrupted write) leaves
\* a file for source s.
ExternalWrite(s, body) ==
    /\ TotalFiles + (IF rd.pc = "fetching" THEN 1 ELSE 0) < MaxFiles
    /\ store' = [store EXCEPT ![s] = Persist(@, now, body)]
    /\ resp' = NoResponse
    /\ call' = NoCall
    /\ UNCHANGED <<now, rd, prev, batch, single, sched, loops, caller, tasks, hist>>

\* A fetch with save_to_file=True that has its records opens its snapshot
\* file for source s: the file exists from now on, named after the current
\* time, and holds a beginning of the JSON text.
WriteOpen(s) ==
    /\ TotalFiles + (IF rd.pc = "fetching" THEN 1 ELSE 0) < MaxFiles
    /\ store' = [store EXCEPT ![s] = Persist(@, now, Partial(<<now>>))]
    /\ resp' = NoResponse
    /\ call' = NoCall
    /\ UNCHANGED <<now, rd, prev, batch, single, sched, loops, caller, tasks, hist>>

\* The write of the i-th file of source s completes: the file holds the whole
\* list and its modification time is the time of this last write.
WriteClose(s, i) ==
    /\ i \in DOMAIN store[s]
    /\ IsPartial(store[s][i])
    /\ store' = [store EXCEPT ![s][i].mtime = now,
                              ![s][i].body = Val("list", store[s][i].body.recs)]
    /\ resp' = NoResponse
    /\ call' = NoCall
    /\ UNCHANGED <<now, rd, prev, batch, single, sched, loops, caller, tasks, hist>>

----------------------------------------------------------------------------
(* The statistics and download requests: main.py, get_mygap_stats and the  *)
(* five download_json handlers                                             *)

InspectSaveToFileOn == TRUE

\* extract_mygap_*_data(save_to_file=False)
InspectSaveToFile == FALSE

\* The response of a statistics or download request for source s whose fetch
\* gave o: the records' statistics or the records themselves, or HTTP 500
\* when the fetch returned None or raised.
Inspected(op, s, o) ==
    [NoCall EXCEPT !.op = op, !.arg = s, !.time = now,
                   !.code = IF o.kind = "list" THEN 200 ELSE 500,
                   !.success = o.kind = "list",
                   !.available_scrapers = o.recs]

\* GET /mygap/stats: one fetch of the TBM source, never of another.
StatsRequest(o) ==
    /\ store' = [store EXCEPT !["TBM"] = FetchEffect(@, o, "list", InspectSaveToFile)]
    /\ call' = Inspected("stats", "TBM", o)
    /\ resp' = NoResponse
    /\ UNCHANGED <<now, rd, prev, batch, single, sched, loops, caller, tasks, hist>>

\* GET /mygap/download/{tbm,pf,am,organic,tanaman}: one fetch of the source.
DownloadRequest(s, o) ==
    /\ store' = [store EXCEPT ![s] = FetchEffect(@, o, "list", InspectSaveToFile)]
    /\ call' = Inspected("download", s, o)
    /\ resp' = NoResponse
    /\ UNCHANGED <<now, rd, prev, batch, single, sched, loops, caller, tasks, hist>>

----------------------------------------------------------------------------
(* The batch runner: scheduler.py, ScrapingScheduler *)

run_scraping_job_NoCatch(o) ==
    [returned |-> o.kind /= "raise",
     success |-> o /= None,
     record_count |-> IF o.kind = "list" THEN Len(o.recs) ELSE 0]

run_scraping_job_AnyData(o) ==
    [returned |-> TRUE,
     success |-> o.kind /= "raise",
     record_count |-> IF o.kind = "list" THEN Len(o.recs) ELSE 0]

run_scraping_job_NonEmpty(o) ==
    [returned |-> TRUE,
     success |-> o.kind = "list" /\ o.recs /= <<>>,
     record_count |-> IF o.kind = "list" THEN Len(o.recs) ELSE 0]

\* run_scraping_job, given what the fetch did (o): whether the job returns to
\* its caller (an exception of the fetch is caught and logged), the boolean
\* it returns (data is not None) and the record count it logs.
run_scraping_job(o) ==
    [returned |-> TRUE,
     success |-> o.kind /= "raise" /\ o /= None,
     record_count |-> IF o.kind = "list" THEN Len(o.recs) ELSE 0]

IterationSorted == RegistrySorted

\* for scraper_name, scraper_func in self.scraping_functions.items()
IterationOrder == Registry

\* results[scraper_name] = success, on a dict kept in insertion order
DictPut(d, k, v) ==
    IF \E j \in DOMAIN d : d[j].name = k
    THEN [j \in DOMAIN d |-> IF d[j].name = k THEN [name |-> k, success |-> v] ELSE d[j]]
    ELSE Append(d, [name |-> k, success |-> v])

\* [name for name, success in results.items() if success == want]
NamesWhere(d, want) ==
    LET keep == SelectSeq(d, LAMBDA e : e.success = want)
    IN [j \in DOMAIN keep |-> keep[j].name]

\* i: the position of the loop in the registry; sleeps: time.sleep(2) calls
\* made; jobs: for each job run, the source, what
\* its fetch did and the record count logged.
IdleBatch ==
    [pc |-> "idle", kind |-> "", i |-> 0, scraper_name |-> "", results |-> <<>>,
     sleeps |-> 0, jobs |-> <<>>,
     successful_scrapers |-> <<>>, failed_scrapers |-> <<>>]

IdleSingle == [pc |-> "idle", name |-> "", ret |-> FALSE]

\* run_all_scrapers is entered, by the scheduler's daily job or by the
\* manual trigger's thread, and calls run_scraping_job for the first source,
\* which calls the fetch with save_to_file=True.
BatchStart(kind) ==
    /\ batch.pc = "idle"
    /\ batch' = [IdleBatch EXCEPT !.pc = "fetching", !.kind = kind, !.i = 1,
                                  !.scraper_name = IterationOrder[1]]
    /\ resp' = NoResponse
    /\ UNCHANGED <<now, store, rd, prev, single, sched, loops, caller, tasks, call, hist>>

\* The fetch of the current source returns or raises; run_scraping_job
\* returns, its result is stored and the loop starts time.sleep(2).
BatchFetchReturn(o, shape) ==
    /\ batch.pc = "fetching"
    /\ LET name == batch.scraper_name
           job == run_scraping_job(o)
           logged == Append(batch.jobs,
                            [name |-> name, fetch |-> o.kind, record_count |-> job.record_count])
       IN /\ store' = [store EXCEPT ![name] = FetchEffect(@, o, shape, TRUE)]
          /\ batch' = IF job.returned
                      THEN [batch EXCEPT !.pc = "sleeping",
                                         !.results = DictPut(@, name, job.success),
                                         !.sleeps = @ + 1,
                                         !.jobs = logged]
                      ELSE [batch EXCEPT !.pc = "crashed", !.jobs = logged]
    /\ resp' = NoResponse
    /\ UNCHANGED <<now, rd, prev, single, sched, loops, caller, tasks, call, hist>>

\* time.sleep(2) is over: the loop goes on to the next source, or ends and
\* the summary lists are built and logged.
BatchSleepOver ==
    /\ batch.pc = "sleeping"
    /\ batch' = IF batch.i < Len(IterationOrder)
                THEN [batch EXCEPT !.pc = "fetching", !.i = @ + 1,
                                   !.scraper_name = IterationOrder[batch.i + 1]]
                ELSE [batch EXCEPT !.pc = "done",
                                   !.successful_scrapers = NamesWhere(batch.results, TRUE),
                                   !.failed_scrapers = NamesWhere(batch.results, FALSE)]
    /\ resp' = NoResponse
    /\ UNCHANGED <<now, store, rd, prev, single, sched, loops, caller, tasks, call, hist>>

\* run_single_scraper(scraper_name): an unknown name returns False at once;
\* a known one runs run_scraping_job, which calls the fetch.
SingleStart(scraper_name) ==
    /\ single.pc = "idle"
    /\ single' = IF scraper_name \in Sources
                 THEN [pc |-> "fetching", name |-> scraper_name, ret |-> FALSE]
                 ELSE [pc |-> "done", name |-> scraper_name, ret |-> FALSE]
    /\ resp' = NoResponse
    /\ UNCHANGED <<now, store, rd, prev, batch, sched, loops, caller, tasks, call, hist>>

SingleFetchReturn(o, shape) ==
    /\ single.pc = "fetching"
    /\ store' = [store EXCEPT ![single.name] = FetchEffect(@, o, shape, TRUE)]
    /\ single' = LET job == run_scraping_job(o)
                 IN IF job.returned
                    THEN [single EXCEPT !.pc = "done", !.ret = job.success]
                    ELSE [single EXCEPT !.pc = "crashed"]
    /\ resp' = NoResponse
    /\ UNCHANGED <<now, rd, prev, batch, sched, loops, caller, tasks, call, hist>>

----------------------------------------------------------------------------
(* The scheduler: scheduler.py, ScrapingScheduler.start_background_scheduler, *)
(* stop_scheduler, run_scheduler, get_next_run_time, and the job list of the  *)
(* schedule library they call.                                                 *)

\* The time of day start is given, in ticks after midnight: main.py's startup
\* handler calls start_scheduler("00:00").
TimesOfDay == {0}

\* The first time after t that falls on the time of day time_str.
NextOccurrence(t, time_str) ==
    CHOOSE u \in (t + 1) .. (t + TicksPerDay) : u % TicksPerDay = time_str

\* schedule.every().day.at(time_str).do(self.run_all_scrapers), called at t:
\* a job due at the next occurrence of time_str.  id tells job objects apart.
Job(id, time_str, t) == [id |-> id, at |-> time_str, next_run |-> NextOccurrence(t, time_str)]

\* job.should_run, as run_pending evaluates it
should_run(job) == now >= job.next_run

ClearJobsNot(jobs) == jobs

\* schedule.clear()
ClearJobs(jobs) == <<>>

\* After a job ran the library gives that job object its next due time; the
\* job list itself is not touched, so a job cleared meanwhile stays cleared.
Reschedule(jobs, id) ==
    [j \in DOMAIN jobs |->
        IF jobs[j].id = id
        THEN [jobs[j] EXCEPT !.next_run = NextOccurrence(now, jobs[j].at)]
        ELSE jobs[j]]

\* ScrapingScheduler.__init__: running = False, scheduler_thread = None; the
\* schedule library's job list starts empty.  scheduler_thread is an index
\* into loops, 0 for None.
IdleSched == [running |-> FALSE, scheduler_thread |-> 0, jobs |-> <<>>]

\* A thread created with target=self.run_scheduler.  pc is its position:
\*   starting  started, before self.running = True
\*   check     at `while self.running`
\*   pending   about to call schedule.run_pending()
\*   selected  inside run_pending, the due jobs chosen (runnable), before a job is called
\*   job       inside run_all_scrapers, in the fetch of source IterationOrder[i]
\*   sleep30   in time.sleep(30)
\*   sleep60   in time.sleep(60), after an exception in the iteration
\*   dead      run_scheduler has returned
NewLoop == [pc |-> "starting", runnable |-> <<>>, job |-> 0, i |-> 0]

\* get_next_run_time: min(job.next_run for job in jobs), or None.  The
\* result is formatted to whole seconds; a tick is a whole number of seconds.
get_next_run_time ==
    IF sched.jobs /= <<>>
    THEN CHOOSE t \in {sched.jobs[j].next_run : j \in DOMAIN sched.jobs} :
            \A j \in DOMAIN sched.jobs : t <= sched.jobs[j].next_run
    ELSE NoNextRun

SchedulerThreadAliveNever == FALSE

\* self.scheduler_thread and self.scheduler_thread.is_alive()
SchedulerThreadAlive ==
    sched.scheduler_thread /= 0 /\ loops[sched.scheduler_thread].pc /= "dead"

\* stopped: stop_scheduler has returned and start has not been called since.
\* inflight: the position in the registry of the scheduled batch that was
\* running when stop_scheduler was last called (0: none was).
NoHist == [stopped |-> FALSE, inflight |-> 0]

\* The position of the scheduled batch in progress, 0 if there is none.
BatchInFlight ==
    IF \E k \in DOMAIN loops : loops[k].pc = "job"
    THEN loops[CHOOSE k \in DOMAIN loops : loops[k].pc = "job"].i
    ELSE 0

readVars == <<rd, resp, prev, batch, single>>

\* start_scheduler(time_str) -> start_background_scheduler(time_str)
StartCall(time_str) ==
    /\ caller = "idle"
    /\ IF SchedulerThreadAlive
       THEN /\ UNCHANGED <<sched, loops>>
            /\ call' = [NoCall EXCEPT !.op = "start", !.result = "already running",
                                      !.time = now]
       ELSE /\ Len(loops) < MaxThreads
            /\ sched' = [sched EXCEPT
                            !.jobs = Append(@, Job(Len(loops) + 1, time_str, now)),
                            !.scheduler_thread = Len(loops) + 1]
            /\ loops' = Append(loops, NewLoop)
            /\ call' = [NoCall EXCEPT !.op = "start", !.result = "started", !.time = now]
    /\ hist' = [hist EXCEPT !.stopped = FALSE, !.inflight = 0]
    /\ UNCHANGED <<now, store, caller, tasks>>
    /\ UNCHANGED readVars

\* stop_scheduler(): self.running = False
StopBegin ==
    /\ caller = "idle"
    /\ sched' = [sched EXCEPT !.running = FALSE]
    /\ caller' = "stopping"
    /\ call' = NoCall
    /\ hist' = [hist EXCEPT !.inflight = BatchInFlight]
    /\ UNCHANGED <<now, store, loops, tasks>>
    /\ UNCHANGED readVars

\* stop_scheduler(): if self.scheduler_thread: schedule.clear(); return
StopEnd ==
    /\ caller = "stopping"
    /\ sched' = IF sched.scheduler_thread /= 0
                THEN [sched EXCEPT !.jobs = ClearJobs(@)]
                ELSE sched
    /\ caller' = "idle"
    /\ call' = [NoCall EXCEPT !.op = "stop", !.time = now]
    /\ hist' = [hist EXCEPT !.stopped = TRUE]
    /\ UNCHANGED <<now, store, loops, tasks>>
    /\ UNCHANGED readVars

\* run_scheduler, entered by the new thread: self.running = True
LoopEnter(k) ==
    /\ loops[k].pc = "starting"
    /\ sched' = [sched EXCEPT !.running = TRUE]
    /\ loops' = [loops EXCEPT ![k].pc = "check"]
    /\ call' = NoCall
    /\ UNCHANGED <<now, store, caller, tasks, hist>>
    /\ UNCHANGED readVars

\* while self.running
LoopCheck(k) ==
    /\ loops[k].pc = "check"
    /\ loops' = [loops EXCEPT ![k].pc = IF sched.running THEN "pending" ELSE "dead"]
    /\ call' = NoCall
    /\ UNCHANGED <<now, store, sched, caller, tasks, hist>>
    /\ UNCHANGED readVars

\* schedule.run_pending() chooses the jobs that are due; with none it
\* returns and the loop goes to time.sleep(30).
LoopRunPending(k) ==
    /\ loops[k].pc = "pending"
    /\ LET runnable == SelectSeq(sched.jobs, should_run)
       IN loops' = IF runnable = <<>>
                   THEN [loops EXCEPT ![k].pc = "sleep30"]
                   ELSE [loops EXCEPT ![k].pc = "selected", ![k].runnable = runnable]
    /\ call' = NoCall
    /\ UNCHANGED <<now, store, sched, caller, tasks, hist>>
    /\ UNCHANGED readVars

\* run_pending calls the next chosen job: run_all_scrapers is entered and
\* calls run_scraping_job for the first source.
LoopJobStart(k) ==
    /\ loops[k].pc = "selected"
    /\ loops' = [loops EXCEPT ![k].pc = "job",
                              ![k].job = Head(loops[k].runnable).id,
                              ![k].runnable = Tail(loops[k].runnable),
                              ![k].i = 1]
    /\ call' = NoCall
    /\ UNCHANGED <<now, store, sched, caller, tasks, hist>>
    /\ UNCHANGED readVars

\* The fetches a job can be given while the files on disk stay within MaxFiles.
JobOutcomes ==
    IF TotalFiles < MaxFiles
    THEN FetchOutcomes(now)
    ELSE {o \in FetchOutcomes(now) : o.kind /= "list"}

BatchContinuesWhileRunning(i) == i < Len(IterationOrder) /\ sched.running

\* for scraper_name, scraper_func in self.scraping_functions.items(): the
\* loop goes on to the next source while there is one; it tests nothing else.
BatchContinues(i) == i < Len(IterationOrder)

\* The fetches a scheduled job is given: a failure, an exception, or the
\* site's records, the last only while the files on disk stay within MaxFiles.
SchedOutcomes ==
    {Val("none", <<>>), Val("raise", <<>>)}
        \cup (IF TotalFiles < MaxFiles THEN {Val("list", <<now>>)} ELSE {})

AfterExceptionDies == "dead"

\* except Exception as e: scheduler_logger.error(...); time.sleep(60)
AfterException == "sleep60"

\* Inside the scheduled run_all_scrapers: the fetch of the current source
\* returns or raises, run_scraping_job returns, time.sleep(2) passes; then
\* the next source, or the batch ends, the job gets its next due time and
\* run_pending goes on to the next chosen job or returns to the loop, which
\* sleeps 30 s.  An exception leaving run_pending is caught by the loop, which
\* sleeps 60 s.
LoopJobFetchReturn(k, o) ==
    /\ loops[k].pc = "job"
    /\ LET name == IterationOrder[loops[k].i]
           job == run_scraping_job(o)
       IN /\ store' = [store EXCEPT ![name] = FetchEffect(@, o, "list", TRUE)]
          /\ IF ~job.returned
             THEN /\ loops' = [loops EXCEPT ![k].pc = AfterException, ![k].runnable = <<>>,
                                            ![k].job = 0, ![k].i = 0]
                  /\ UNCHANGED sched
             ELSE IF BatchContinues(loops[k].i)
             THEN /\ loops' = [loops EXCEPT ![k].i = @ + 1]
                  /\ UNCHANGED sched
             ELSE /\ loops' = [loops EXCEPT
                                 ![k].pc = IF loops[k].runnable /= <<>>
                                           THEN "selected" ELSE "sleep30",
                                 ![k].job = 0, ![k].i = 0]
                  /\ sched' = [sched EXCEPT !.jobs = Reschedule(@, loops[k].job)]
    /\ call' = NoCall
    /\ UNCHANGED <<now, caller, tasks, hist>>
    /\ UNCHANGED readVars

\* An exception is raised inside the try block of a poll iteration (by
\* schedule.run_pending() or by something the job calls outside
\* run_scraping_job's own try): the loop's except logs it and sleeps 60 s.
\* The job that was running is not given a new due time.
LoopIterationRaises(k) ==
    /\ loops[k].pc \in {"pending", "selected", "job"}
    /\ loops' = [loops EXCEPT ![k].pc = AfterException, ![k].runnable = <<>>,
                              ![k].job = 0, ![k].i = 0]
    /\ call' = [NoCall EXCEPT !.op = "loop-error", !.time = now]
    /\ UNCHANGED <<now, store, sched, caller, tasks, hist>>
    /\ UNCHANGED readVars

\* time.sleep(30) or time.sleep(60) is over
LoopWake(k) ==
    /\ loops[k].pc \in {"sleep30", "sleep60"}
    /\ loops' = [loops EXCEPT ![k].pc = "check"]
    /\ call' = NoCall
    /\ UNCHANGED <<now, store, sched, caller, tasks, hist>>
    /\ UNCHANGED readVars

----------------------------------------------------------------------------
(* The status and health requests: main.py /scheduler/status and /health,  *)
(* scheduler.py get_scheduler_status                                       *)

\* scheduler.get_scheduler_status(): the dict it returns
get_scheduler_status ==
    [kind |-> "dict", running |-> sched.running, next_run |-> get_next_run_time,
     available_scrapers |-> IterationOrder]

\* What calling a coroutine function returns: a coroutine object, which has
\* no items.
Coroutine ==
    [kind |-> "coroutine", running |-> FALSE, next_run |-> NoNextRun,
     available_scrapers |-> <<>>]

\* What the expression get_scheduler_status() evaluates to inside main.py.
\* main.py imports the name from scheduler and then defines
\* `async def get_scheduler_status()` (the /scheduler/status handler) under
\* the same name, so at request time the module global is the handler itself
\* and the call returns a coroutine object.
main_get_scheduler_status == Coroutine

\* GET /scheduler/status: status = get_scheduler_status(); status["running"]
\* on a coroutine object raises TypeError, which the handler's except turns
\* into HTTPException(500).
StatusEndpoint ==
    /\ caller = "idle"
    /\ LET status == main_get_scheduler_status
       IN call' = IF status.kind = "dict"
                  THEN [NoCall EXCEPT !.op = "status", !.code = 200, !.success = TRUE,
                                      !.running = status.running,
                                      !.next_run = status.next_run,
                                      !.available_scrapers = status.available_scrapers,
                                      !.time = now]
                  ELSE [NoCall EXCEPT !.op = "status", !.code = 500, !.time = now]
    /\ UNCHANGED <<now, store, sched, loops, caller, tasks, hist>>
    /\ UNCHANGED readVars

\* GET /health: the same call, outside any try; the TypeError leaves the
\* handler and the framework answers 500.
HealthEndpoint ==
    /\ caller = "idle"
    /\ LET scheduler_status == main_get_scheduler_status
       IN call' = IF scheduler_status.kind = "dict"
                  THEN [NoCall EXCEPT !.op = "health", !.code = 200, !.success = TRUE,
                                      !.running = scheduler_status.running,
                                      !.next_run = scheduler_status.next_run,
                                      !.time = now]
                  ELSE [NoCall EXCEPT !.op = "health", !.code = 500, !.time = now]
    /\ UNCHANGED <<now, store, sched, loops, caller, tasks, hist>>
    /\ UNCHANGED readVars

----------------------------------------------------------------------------
(* The manual triggers: main.py /scheduler/run-now and                      *)
(* /scheduler/run-single/{scraper_name}, and the threads they start         *)

valid_scrapers_AndUnknown == <<"TBM", "PF", "AM", "Organic", "Tanaman", "Unknown">>

\* valid_scrapers = ['TBM', 'PF', 'AM', 'Organic', 'Tanaman']
valid_scrapers == <<"TBM", "PF", "AM", "Organic", "Tanaman">>

IsValidScraperAny(scraper_name) == TRUE

\* scraper_name in valid_scrapers
IsValidScraper(scraper_name) ==
    \E j \in DOMAIN valid_scrapers : valid_scrapers[j] = scraper_name

\* A thread started by a trigger: kind "all" runs run_manual_scraping ->
\* run_all_scrapers and is in the fetch of source IterationOrder[i]; kind
\* "single" runs run_single_scraper(scraper_name).
Task(kind, scraper_name) ==
    [kind |-> kind, scraper_name |-> scraper_name, i |-> IF kind = "all" THEN 1 ELSE 0]

DispatchSingleFlight(ts, task) == IF ts = <<>> THEN Append(ts, task) ELSE ts

DispatchUnlessBatch(ts, task) ==
    IF \E k \in DOMAIN loops : loops[k].pc = "job" THEN ts ELSE Append(ts, task)

\* thread = threading.Thread(target=..., daemon=True); thread.start()
Dispatch(ts, task) == Append(ts, task)

\* The response of a trigger that started its thread.
Ack(op, scraper_name) ==
    [NoCall EXCEPT !.op = op, !.arg = scraper_name, !.code = 200, !.success = TRUE,
                   !.result = "started in background", !.time = now]

\* POST /scheduler/run-now
RunNowEndpoint ==
    /\ caller = "idle"
    /\ Len(tasks) < MaxTasks
    /\ tasks' = Dispatch(tasks, Task("all", ""))
    /\ call' = Ack("run-now", "")
    /\ UNCHANGED <<now, store, sched, loops, caller, hist>>
    /\ UNCHANGED readVars

\* POST /scheduler/run-single/{scraper_name}: an invalid name raises
\* HTTPException(400) before any thread is created.
RunSingleEndpoint(scraper_name) ==
    /\ caller = "idle"
    /\ IF ~IsValidScraper(scraper_name)
       THEN /\ call' = [NoCall EXCEPT !.op = "run-single", !.arg = scraper_name,
                                      !.code = 400, !.result = "Invalid scraper name",
                                      !.time = now]
            /\ UNCHANGED tasks
       ELSE /\ Len(tasks) < MaxTasks
            /\ tasks' = Dispatch(tasks, Task("single", scraper_name))
            /\ call' = Ack("run-single", scraper_name)
    /\ UNCHANGED <<now, store, sched, loops, caller, hist>>
    /\ UNCHANGED readVars

TaskSchedSetsRunning(s) == [s EXCEPT !.running = TRUE]

\* What a step of a trigger thread leaves of the scheduler object:
\* run_manual_scraping, run_all_scrapers, run_single_scraper and
\* run_scraping_job assign no attribute of it and call nothing of the schedule
\* library.
TaskSched(s) == s

\* ts without its k-th thread, which has finished
Finished(ts, k) == SubSeq(ts, 1, k - 1) \o SubSeq(ts, k + 1, Len(ts))

\* A step of the k-th trigger thread.  run_single_scraper returns False at
\* once for a name that is not a key of scraping_functions; otherwise the
\* fetch of the thread's current source returns or raises and
\* run_scraping_job returns; a batch then sleeps 2 s and goes on to its next
\* source.  The thread ends when its function returns or an exception leaves it.
TaskFetchReturn(k, o) ==
    /\ k \in DOMAIN tasks
    /\ LET task == tasks[k]
           name == IF task.kind = "all" THEN IterationOrder[task.i] ELSE task.scraper_name
           job == run_scraping_job(o)
       IN IF name \notin Sources
          THEN /\ tasks' = Finished(tasks, k)
               /\ UNCHANGED store
          ELSE /\ store' = [store EXCEPT ![name] = FetchEffect(@, o, "list", TRUE)]
               /\ tasks' = IF task.kind = "all" /\ job.returned /\ BatchContinues(task.i)
                           THEN [tasks EXCEPT ![k].i = @ + 1]
                           ELSE Finished(tasks, k)
    /\ sched' = TaskSched(sched)
    /\ call' = NoCall
    /\ UNCHANGED <<now, loops, caller, hist>>
    /\ UNCHANGED readVars

----------------------------------------------------------------------------
(* Specifications *)

InitRead ==
    /\ now = 0
    /\ store = [s \in Sources |-> <<>>]
    /\ rd = IdleRead
    /\ resp = NoResponse
    /\ prev = NoPrev
    /\ batch = IdleBatch
    /\ single = IdleSingle
    /\ sched = IdleSched
    /\ loops = <<>>
    /\ caller = "idle"
    /\ tasks = <<>>
    /\ call = NoCall
    /\ hist = NoHist

NextRead ==
    \/ \E s \in Endpoints : ReadBegin(s)
    \/ \E o \in FetchOutcomes(now), shape \in {"list", "data"} : ReadFetchReturn(o, shape)
    \/ Tick
    \/ \E s \in Endpoints, body \in FileBodies(now) : ExternalWrite(s, body)

SpecRead == InitRead /\ [][NextRead]_vars

\* One batch, scheduled or manual, and one manual single-source run beside it.
\* Nothing here reads the files the fetches write, so they are written in one
\* of the two shapes only.
InitBatch == InitRead

\* The names a caller can pass to run_single_scraper: the registered ones and
\* one that is not registered.
ScraperNames == Sources \cup {"Unknown"}

NextBatch ==
    \/ \E kind \in {"scheduled", "manual"} : BatchStart(kind)
    \/ \E o \in FetchOutcomes(now) : BatchFetchReturn(o, "list")
    \/ BatchSleepOver
    \/ \E scraper_name \in ScraperNames : SingleStart(scraper_name)
    \/ \E o \in FetchOutcomes(now) : SingleFetchReturn(o, "list")

SpecBatch == InitBatch /\ [][NextBatch]_vars

\* The same, with every fetch the batch calls eventually returning or raising
\* and every time.sleep(2) eventually over.
BatchFairness ==
    /\ WF_vars(\E o \in FetchOutcomes(now) : BatchFetchReturn(o, "list"))
    /\ WF_vars(BatchSleepOver)

SpecBatchFair == InitBatch /\ [][NextBatch]_vars /\ BatchFairness

\* The scheduler's life: start and stop calls, the loop threads and the jobs
\* they run, status and health requests, and the clock.
InitSched == InitRead

NextSched ==
    \/ \E time_str \in TimesOfDay : StartCall(time_str)
    \/ StopBegin
    \/ StopEnd
    \/ \E k \in DOMAIN loops : LoopEnter(k)
    \/ \E k \in DOMAIN loops : LoopCheck(k)
    \/ \E k \in DOMAIN loops : LoopRunPending(k)
    \/ \E k \in DOMAIN loops : LoopJobStart(k)
    \/ \E k \in DOMAIN loops, o \in SchedOutcomes : LoopJobFetchReturn(k, o)
    \/ \E k \in DOMAIN loops : LoopWake(k)
    \/ \E k \in DOMAIN loops : LoopIterationRaises(k)
    \/ StatusEndpoint
    \/ HealthEndpoint
    \/ SchedTick

SpecSched == InitSched /\ [][NextSched]_vars

\* The manual triggers and the threads they start.
InitTrigger == InitRead

NextTrigger ==
    \/ RunNowEndpoint
    \/ \E scraper_name \in ScraperNames : RunSingleEndpoint(scraper_name)
    \/ \E k \in DOMAIN tasks, o \in JobOutcomes : TaskFetchReturn(k, o)

SpecTrigger == InitTrigger /\ [][NextTrigger]_vars

\* The service from startup to shutdown, as main.py runs it: startup_event
\* starts the scheduler once, requests are served, shutdown_event stops the
\* scheduler once and no request is served after it; the loop thread and the
\* trigger threads run throughout.
InitService == InitRead

\* The server is between its startup and its shutdown handler.
Serving == loops /= <<>> /\ caller = "idle" /\ ~hist.stopped

\* startup_event: start_scheduler("00:00")
Startup == loops = <<>> /\ \E time_str \in TimesOfDay : StartCall(time_str)

\* shutdown_event: stop_scheduler()
Shutdown == Serving /\ StopBegin

NextService ==
    \/ Startup
    \/ Shutdown
    \/ StopEnd
    \/ \E k \in DOMAIN loops : LoopEnter(k)
    \/ \E k \in DOMAIN loops : LoopCheck(k)
    \/ \E k \in DOMAIN loops : LoopRunPending(k)
    \/ \E k \in DOMAIN loops : LoopJobStart(k)
    \/ \E k \in DOMAIN loops, o \in SchedOutcomes : LoopJobFetchReturn(k, o)
    \/ \E k \in DOMAIN loops : LoopWake(k)
    \/ Serving /\ \E scraper_name \in Endpoints : RunSingleEndpoint(scraper_name)
    \/ \E k \in DOMAIN tasks, o \in SchedOutcomes : TaskFetchReturn(k, o)
    \/ Tick

\* Reads beside writers whose files are visible while they are written: the
\* fetches of the scheduled batch and of the manual triggers, each reduced to
\* the opening and the completion of its snapshot file.
InitRace == InitRead

NextRace ==
    \/ \E s \in Endpoints : WriteOpen(s)
    \/ \E s \in Endpoints : \E i \in DOMAIN store[s] : WriteClose(s, i)
    \/ \E s \in Endpoints : ReadBegin(s)
    \/ \E o \in SchedOutcomes : ReadFetchReturn(o, "list")
    \/ Tick

SpecRace == InitRace /\ [][NextRace]_vars

\* Statistics and download requests beside whatever else writes snapshots.
InitInspect == InitRead

NextInspect ==
    \/ \E o \in FetchOutcomes(now) : StatsRequest(o)
    \/ \E s \in Sources, o \in FetchOutcomes(now) : DownloadRequest(s, o)
    \/ \E s \in Endpoints : ExternalWrite(s, Val("list", <<now>>))
    \/ Tick

SpecInspect == InitInspect /\ [][NextInspect]_vars

SpecService == InitService /\ [][NextService]_vars

\* The requests that have nothing to do with the scheduler's state, served
\* while the scheduler runs: reads, status and health queries and the manual
\* triggers, one trigger thread at a time.  The clock stands still, so no job
\* is due and the loop thread only polls.
InitRequests == InitRead

NextRequests ==
    \/ Startup
    \/ Shutdown
    \/ StopEnd
    \/ \E k \in DOMAIN loops : LoopEnter(k)
    \/ \E k \in DOMAIN loops : LoopCheck(k)
    \/ \E k \in DOMAIN loops : LoopRunPending(k)
    \/ \E k \in DOMAIN loops : LoopWake(k)
    \/ Serving /\ \E s \in Endpoints : ReadBegin(s)
    \/ \E o \in SchedOutcomes : ReadFetchReturn(o, "list")
    \/ Serving /\ StatusEndpoint
    \/ Serving /\ HealthEndpoint
    \/ Serving /\ tasks = <<>> /\ RunNowEndpoint
    \/ Serving /\ tasks = <<>> /\ \E scraper_name \in Endpoints : RunSingleEndpoint(scraper_name)
    \/ \E k \in DOMAIN tasks, o \in SchedOutcomes : TaskFetchReturn(k, o)

SpecRequests == InitRequests /\ [][NextRequests]_vars

-----------
(* Properties of the read path *)

\* A step in which a read request for source s is taken up by the handler.
ReadStep(s) ==
    /\ rd.pc = "idle"
    /\ \/ rd'.pc = "fetching" /\ rd'.src = s
       \/ resp'.status /= "none" /\ resp'.src = s

HasLatest(s) == store[s] /= <<>>

Latest(s) == store[s][LatestIndex(store[s])]

Age(s) == now - Latest(s).mtime

\* C1: a read either fails or returns the records of a snapshot that was
\* younger than the threshold when freshness was decided: the latest cached
\* file, or the file the read's own fetch has just persisted.
C1_ReadIsFreshOrFails ==
    /\ resp.status \in {"none", "ok", "error"}
    /\ resp.status = "ok" =>
        LET files == store[resp.src] IN
        \/ /\ resp.data_source = "cache"
           /\ resp.fetch = "not called"
           /\ resp.latest_file \in DOMAIN files
           /\ resp.timestamp - files[resp.latest_file].mtime < Threshold
           /\ files[resp.latest_file].body \in SnapshotBodies(resp.records)
        \/ /\ resp.data_source = "fresh"
           /\ resp.fetch = "returned records"
           /\ files /= <<>>
           /\ resp.timestamp - files[Len(files)].mtime = 0
           /\ files[Len(files)].body \in SnapshotBodies(resp.records)

\* A read was answered from a cached snapshot of non-zero age.
C1_Witness ==
    /\ resp.status = "ok"
    /\ resp.data_source = "cache"
    /\ resp.file_age > 0
    /\ resp.records /= <<>>

\* C2: a read that finds a fresh, loadable latest snapshot returns its
\* records in the same step, calls no fetch and leaves the store as it was.
C2_FreshHitNoFetchNoWrite ==
    [][\A s \in Sources :
        (/\ ReadStep(s)
         /\ HasLatest(s)
         /\ Age(s) < Threshold
         /\ Latest(s).body.kind \in {"list", "data"})
        => (/\ resp'.status = "ok"
            /\ resp'.records = Latest(s).body.recs
            /\ resp'.fetch = "not called"
            /\ rd'.pc = "idle"
            /\ store' = store)]_vars

\* A read was answered from a cached object-with-data snapshot one tick
\* short of the threshold.
C2_Witness ==
    /\ resp.status = "ok"
    /\ resp.fetch = "not called"
    /\ resp.file_age = Threshold - 1
    /\ store[resp.src][resp.latest_file].body.kind = "data"

\* C3: a read whose fetch returned None or raised fails with an error and
\* returns no records, also when a stale snapshot is on disk.
C3_FailedRefreshIsError ==
    resp.fetch \in {"returned None", "raised"} =>
        /\ resp.status = "error"
        /\ resp.records = <<>>

\* A read failed after its fetch failed although a stale, loadable snapshot
\* of the source was on disk.
C3_Witness ==
    /\ resp.status = "error"
    /\ resp.fetch \in {"returned None", "raised"}
    /\ resp.latest_file > 0
    /\ resp.file_age >= Threshold
    /\ store[resp.src][resp.latest_file].body.kind = "list"

\* C4: a read that finds no snapshot, or a latest snapshot at or above the
\* threshold, calls the fetch with save_to_file=True and gives no response in
\* that step; every response given without a fetch had a fresh latest file.
C4_StaleOrAbsentFetchesFirst ==
    /\ [][\A s \in Sources :
            (ReadStep(s) /\ (~HasLatest(s) \/ Age(s) >= Threshold))
            => (/\ rd'.pc = "fetching"
                /\ rd'.src = s
                /\ rd'.save_to_file
                /\ resp'.status = "none")]_vars
    /\ [](resp.status /= "none" /\ resp.fetch = "not called"
            => resp.latest_file > 0 /\ resp.file_age < Threshold)

\* A read of a source whose latest snapshot is exactly at the threshold has
\* its fetch in flight.
C4_Witness ==
    /\ rd.pc = "fetching"
    /\ rd.save_to_file
    /\ rd.file_age = Threshold

\* C5: after a read that served a snapshot, a read of the same source taken
\* up while that snapshot is younger than the threshold, with nothing written
\* for the source in between, returns the same snapshot (same file, same
\* records) and calls no fetch.
C5_SecondReadSameSnapshot ==
    [][\A s \in Sources :
        (/\ ReadStep(s)
         /\ prev.src = s
         /\ prev.snap > 0
         /\ prev.nfiles = Len(store[s])
         /\ now - store[s][prev.snap].mtime < Threshold)
        => (/\ resp'.status = "ok"
            /\ resp'.records = prev.records
            /\ resp'.latest_file = prev.snap
            /\ resp'.fetch = "not called"
            /\ store' = store)]_vars

\* A read was answered from the cache with the snapshot that the read before
\* it had fetched and persisted.
C5_Witness ==
    /\ resp.status = "ok"
    /\ resp.data_source = "cache"
    /\ resp.after = "fresh"
    /\ resp.records /= <<>>

\* C6: a fresh latest file that does not parse, or is neither a list nor an
\* object with a 'data' key, is a cache miss: the read gives no error and
\* calls the fetch.
C6_UnusableFreshFileIsMiss ==
    [][\A s \in Sources :
        (/\ ReadStep(s)
         /\ HasLatest(s)
         /\ Age(s) < Threshold
         /\ Latest(s).body.kind \in {"corrupt", "null", "obj"})
        => (/\ rd'.pc = "fetching"
            /\ rd'.src = s
            /\ resp'.status = "none")]_vars

----------------------------------------------------------------------------
(* Properties of the batch runner *)

\* The registry order the specification names.
ClaimedOrder == <<"TBM", "PF", "AM", "Organic", "Tanaman">>

Position(name) == CHOOSE j \in DOMAIN ClaimedOrder : ClaimedOrder[j] = name

Names(seq) == {seq[j] : j \in DOMAIN seq}

InClaimedOrder(seq) ==
    \A j, k \in DOMAIN seq : j < k => Position(seq[j]) < Position(seq[k])

FetchFailedIn(jobs, name) ==
    \E j \in DOMAIN jobs : jobs[j].name = name /\ jobs[j].fetch \in {"none", "raise"}

\* C7: a batch never ends early: when it ends it has run the fetch of every
\* registered source and holds exactly one result for each, whichever of the
\* fetches returned None or raised.
C7_OneResultPerSource ==
    /\ batch.pc /= "crashed"
    /\ batch.pc = "done" =>
        /\ Len(batch.jobs) = Len(ClaimedOrder)
        /\ Len(batch.results) = Len(ClaimedOrder)
        /\ \A s \in Names(ClaimedOrder) :
              Cardinality({j \in DOMAIN batch.results : batch.results[j].name = s}) = 1

\* A batch ended in which the first fetch raised, the second returned None
\* and the last one returned records.
C7_Witness ==
    /\ batch.pc = "done"
    /\ batch.jobs[1].fetch = "raise"
    /\ batch.jobs[2].fetch = "none"
    /\ batch.jobs[5].fetch = "list"

\* C8: at the end of a batch the successful and the failed list are disjoint,
\* hold every registered source exactly once between them, each in registry
\* order, and a source is in the failed list exactly when its fetch returned
\* None or raised.
C8_SummaryPartitionsRegistry ==
    batch.pc = "done" =>
        LET ok == batch.successful_scrapers
            ko == batch.failed_scrapers
        IN /\ Names(ok) \cap Names(ko) = {}
           /\ Names(ok) \cup Names(ko) = Names(ClaimedOrder)
           /\ Len(ok) + Len(ko) = Len(ClaimedOrder)
           /\ InClaimedOrder(ok)
           /\ InClaimedOrder(ko)
           /\ \A s \in Names(ClaimedOrder) : s \in Names(ko) <=> FetchFailedIn(batch.jobs, s)

\* A batch over the five sources ended with the third one failed.
C8_Witness ==
    /\ batch.pc = "done"
    /\ batch.successful_scrapers = <<"TBM", "PF", "Organic", "Tanaman">>
    /\ batch.failed_scrapers = <<"AM">>
    /\ batch.jobs[3].fetch = "none"

\* C9: a batch sleeps only between consecutive sources: N-1 delays by the
\* time it ends, and none after the last source.
C9_DelaysOnlyBetweenSources ==
    /\ batch.pc = "done" => batch.sleeps = Len(ClaimedOrder) - 1
    /\ ~(batch.pc = "sleeping" /\ batch.i = Len(ClaimedOrder))

\* C10: a batch runs the sources one after the other in registry order: the
\* fetch of a source is in flight only when the jobs of all sources before it
\* have finished, at most one job of the batch is unfinished, and results are
\* produced in registry order.
C10_SequentialInRegistryOrder ==
    /\ batch.i - Len(batch.jobs) \in {0, 1}
    /\ batch.pc = "fetching" =>
        /\ batch.i - Len(batch.jobs) = 1
        /\ batch.scraper_name = ClaimedOrder[batch.i]
    /\ batch.pc \in {"sleeping", "done"} => batch.i = Len(batch.jobs)
    /\ Len(batch.results) = Len(batch.jobs)
    /\ \A j \in DOMAIN batch.results :
          /\ batch.results[j].name = ClaimedOrder[j]
          /\ batch.jobs[j].name = ClaimedOrder[j]

\* The batch has the fetch of its third source in flight, after two finished
\* jobs, while a manual single run of the same source is in flight too.
C10_Witness ==
    /\ batch.pc = "fetching"
    /\ batch.scraper_name = "AM"
    /\ Len(batch.results) = 2
    /\ single.pc = "fetching"
    /\ single.name = "AM"

----------------------------------------------------------------------------
(* Properties of the scheduler's life: start, stop and the loop thread *)

\* A loop thread that has not returned from run_scheduler.
Alive(k) == loops[k].pc /= "dead"

\* C11: a start call made while the scheduler is Running is a no-op: the
\* running flag, the registered jobs, the scheduler's thread and every loop
\* thread are as before, so no second job and no second loop exist.
C11_StartWhileRunningIsNoOp ==
    [][call'.op = "start" /\ sched.running => sched' = sched /\ loops' = loops]_vars

\* A start call has just returned "already running" on a scheduler whose flag
\* is set and whose job is registered.
C11_Witness ==
    /\ call.op = "start" /\ call.result = "already running"
    /\ sched.running /\ Len(sched.jobs) = 1
    /\ \E k \in DOMAIN loops : Alive(k)

\* C12: when start is called on a stopped scheduler and starts it, the running
\* flag is true when start returns, so a status query made right then
\* reports running = true.
C12_RunningWhenStartReturns ==
    [][call'.op = "start" /\ call'.result = "started" /\ ~sched.running
       => get_scheduler_status'.running]_vars

\* C13: from the return of a stop call until the next start call no job is
\* registered and get_next_run_time returns None.
C13_NoJobAfterStop ==
    hist.stopped => sched.jobs = <<>> /\ get_next_run_time = NoNextRun

\* stop has returned while a loop thread is inside the scheduled batch it
\* started before the stop.
C13_Witness ==
    /\ hist.stopped
    /\ \E k \in DOMAIN loops : loops[k].pc = "job" /\ loops[k].i > 1

\* C14: the running flag goes from true to false only in a stop call, and
\* from the return of a stop call until the next start call it is false.
C14_RunningFollowsStartAndStop ==
    [][/\ sched.running /\ ~sched'.running => caller = "idle" /\ caller' = "stopping"
       /\ hist'.stopped => ~sched'.running]_vars

\* C15: after a stop call (and with no start call since) the loop thread's
\* next evaluation of `while self.running` ends the loop.
C15_LoopExitsAtNextPoll ==
    [][\A k \in DOMAIN loops :
          hist.stopped /\ loops[k].pc = "check" /\ loops'[k].pc /= "check"
          => loops'[k].pc = "dead"]_vars

\* C16: from the return of a stop call until the next start call no loop
\* thread enters a scheduled batch.
C16_NoBatchStartsAfterStop ==
    [][\A k \in DOMAIN loops :
          loops[k].pc = "selected" /\ loops'[k].pc = "job" => ~hist.stopped]_vars

\* C17: whenever start is called while the running flag is false, then at
\* its return a next run time is present and is the first occurrence of the
\* configured time of day after the time of the call.
C17_StartGivesNextRun ==
    [][call'.op = "start" /\ ~sched.running
       => \E time_str \in TimesOfDay :
             /\ get_next_run_time' /= NoNextRun
             /\ get_next_run_time' > now
             /\ get_next_run_time' = NextOccurrence(now, time_str)]_vars

\* C20: every status request succeeds and returns the running flag, the next
\* run time (None with no job registered) and the registry's names in
\* registry order, and every health request returns the running flag and the
\* next run time.
C20_StatusAndHealthReportState ==
    /\ call.op = "status" =>
          /\ call.code = 200
          /\ call.running = sched.running
          /\ call.next_run = get_next_run_time
          /\ call.available_scrapers = Registry
    /\ call.op = "health" =>
          /\ call.code = 200
          /\ call.running = sched.running
          /\ call.next_run = get_next_run_time

-----------
(* Properties of the manual triggers *)

\* C18: a single-source trigger given a name outside the registry is answered
\* with the invalid-name error (400) in the same step; no thread is started
\* for it and nothing is fetched or written.
C18_UnknownSourceRejected ==
    [][call'.op = "run-single" /\ call'.arg \notin Sources
       => call'.code = 400 /\ tasks' = tasks /\ store' = store]_vars

\* An unknown name has just been rejected while another trigger's thread runs.
C18_Witness ==
    /\ call.op = "run-single" /\ call.arg = "Unknown" /\ call.code = 400
    /\ tasks /= <<>>

\* C19: a full-batch trigger, and a single-source trigger with a registered
\* name, starts one more thread, at the beginning of its work, beside however
\* many are running, and answers with the acknowledgment, which is fixed by
\* the request alone.
C19_TriggerDispatchesAndAcks ==
    [][/\ call'.op = "run-now" =>
             /\ call' = Ack("run-now", "")
             /\ tasks' = Append(tasks, Task("all", ""))
       /\ call'.op = "run-single" /\ call'.arg \in Sources =>
             /\ call' = Ack("run-single", call'.arg)
             /\ tasks' = Append(tasks, Task("single", call'.arg))]_vars

\* A trigger has just been acknowledged while its thread and an earlier
\* trigger's thread, which is past a fetch that failed or succeeded, both run.
C19_Witness ==
    /\ call.op \in {"run-now", "run-single"} /\ call.success
    /\ Len(tasks) >= 2
    /\ tasks[1].kind = "all" /\ tasks[1].i > 1
----------------------------------------------------------------------------
(* One fetch per read (SpecRead)                                           *)

\* C28: a read never retries.  A read calls the fetch at most once: the step
\* in which the fetch returns or raises is the step in which the read ends
\* with its response, and a read that is waiting for its fetch starts no
\* other; a fetch that failed ends the read with an error, and only a fetch
\* that returned records ends it with records.
C28_ReadNeverRetries ==
    [][rd.pc = "fetching" =>
          /\ rd' = rd \/ rd' = IdleRead
          /\ resp'.status /= "none" =>
                /\ rd' = IdleRead
                /\ resp'.fetch \in {"returned records", "returned None", "raised"}
                /\ resp'.status = "ok" <=> resp'.fetch = "returned records"]_vars

\* A read that found no snapshot at all has ended with an error after its one
\* fetch returned None.
C28_Witness ==
    /\ rd = IdleRead
    /\ resp.status = "error"
    /\ resp.fetch = "returned None"
    /\ resp.latest_file = 0

----------------------------------------------------------------------------
(* Statistics and downloads (SpecInspect)                                  *)

\* C26: a statistics or download request never creates or replaces a
\* snapshot: the store, and with it every source's current snapshot and its
\* modification time, is after the request what it was before.
C26_InspectionWritesNothing ==
    [][call'.op \in {"stats", "download"} =>
          /\ store' = store
          /\ \A s \in Sources : HasLatest(s) => HasLatest(s)' /\ Latest(s)' = Latest(s)]_vars

\* A download has just returned the site's current records for a source
\* whose only snapshot on disk is older than they are.
C26_Witness ==
    /\ call.op = "download" /\ call.code = 200
    /\ call.available_scrapers /= <<>>
    /\ Len(store[call.arg]) = 1
    /\ store[call.arg][1].mtime < call.time

----------------------------------------------------------------------------
(* The loop thread's exception handling and the scheduled batches          *)
(* (SpecSched)                                                             *)

\* C21: an exception raised inside a poll iteration never ends the loop: the
\* loop catches it, sleeps 60 s and evaluates `while self.running` again; a
\* loop thread ends only on evaluating that condition with running false.
C21_ExceptionNeverEndsLoop ==
    [][\A k \in DOMAIN loops :
          /\ loops[k].pc /= "dead" /\ loops'[k].pc = "dead"
             => loops[k].pc = "check" /\ ~sched.running
          /\ call'.op = "loop-error" /\ loops'[k] /= loops[k]
             => loops'[k].pc = "sleep60"
          /\ loops[k].pc = "sleep60" /\ loops'[k].pc /= "sleep60"
             => loops'[k].pc = "check"]_vars

\* An exception has just been caught inside a poll iteration of a running
\* scheduler, and the loop thread is in its 60 s sleep.
C21_Witness ==
    /\ call.op = "loop-error"
    /\ sched.running
    /\ \E k \in DOMAIN loops : loops[k].pc = "sleep60"

\* The loop threads that are inside a scheduled batch.
InBatch == {k \in DOMAIN loops : loops[k].pc = "job"}

\* C25: scheduled batches never overlap: at most one loop thread is inside a
\* scheduled batch at any time, and a thread inside one goes on with its
\* sources in order and does not evaluate the loop condition or poll again
\* before the batch has ended (by its last source, or by an exception).
C25_ScheduledBatchesNeverOverlap ==
    /\ [](Cardinality(InBatch) <= 1)
    /\ [][\A k \in InBatch :
             \/ loops'[k] = loops[k]
             \/ loops'[k].pc = "job" /\ loops'[k].i = loops[k].i + 1
             \/ loops'[k].pc \in {"sleep30", "selected"} /\ loops[k].i = Len(IterationOrder)
             \/ loops'[k].pc = "sleep60" /\ call'.op = "loop-error"]_vars

\* A second loop thread (started after a stop ended the first) is inside a
\* scheduled batch, past its first source.
C25_Witness ==
    \E k \in InBatch : k > 1 /\ loops[k].i > 1

\* C29: every daily due time gets its scheduled batch, and only one: when a
\* running scheduler's batch ends, the job's next due time is the daily time
\* that follows the due time the batch ran for.
C29_OneBatchPerDueTime ==
    [][\A k \in InBatch : \A j \in DOMAIN sched.jobs :
          /\ sched.running /\ sched'.running
          /\ sched.jobs[j].id = loops[k].job
          /\ loops'[k].pc \in {"sleep30", "selected"}
          => sched'.jobs[j].next_run = sched.jobs[j].next_run + TicksPerDay]_vars

----------------------------------------------------------------------------
(* The running service: scheduled batch, manual triggers and shutdown      *)
(* together (SpecService)                                                  *)

\* The loop threads whose scheduled batch is in the fetch of source s.
LoopsFetching(s) == {k \in InBatch : IterationOrder[loops[k].i] = s}

\* The trigger threads that are in the fetch of source s.
TasksFetching(s) ==
    {k \in DOMAIN tasks :
        IF tasks[k].kind = "all" THEN IterationOrder[tasks[k].i] = s
                                 ELSE tasks[k].scraper_name = s}

\* The number of fetches (persist = true) of source s in flight.
InFlight(s) == Cardinality(LoopsFetching(s)) + Cardinality(TasksFetching(s))

\* C22: nothing excludes two fetches of one source: an accepted single-source
\* trigger always adds its fetch to those already in flight for that source,
\* whether they belong to the scheduled batch or to earlier triggers, so a
\* state with a manual trigger's and the scheduled batch's (and a second
\* manual trigger's) fetch of the same source in flight is reachable.
C22_NoMutualExclusion ==
    [][\A s \in Sources :
          call'.op = "run-single" /\ call'.arg = s /\ call'.code = 200
          => InFlight(s)' = InFlight(s) + 1]_vars

\* The scheduled batch and two manual triggers are all in the fetch of the
\* same source.
C22_Witness ==
    \E s \in Sources :
        /\ LoopsFetching(s) /= {}
        /\ Cardinality(TasksFetching(s)) >= 2

\* The step is the return of a fetch with persist = true of some source.
PersistingFetchReturns ==
    \E s \in Sources, o \in SchedOutcomes :
        store' = [store EXCEPT ![s] = FetchEffect(@, o, "list", TRUE)]

\* C24: stop cancels nothing that is executing.  The steps of a stop call
\* leave every loop thread, every trigger thread and the snapshot store as
\* they are; and at any time, stop called or not, a scheduled batch in
\* progress goes on to its next source until it has done its last one, a
\* trigger thread ends only by the return of its fetch, and each such fetch
\* still persists what it returns.
C24_StopCancelsNothing ==
    [][/\ caller' /= caller => loops' = loops /\ tasks' = tasks /\ store' = store
       /\ \A k \in InBatch :
             loops'[k] /= loops[k] =>
                /\ IF loops[k].i < Len(IterationOrder)
                   THEN loops'[k].pc = "job" /\ loops'[k].i = loops[k].i + 1
                   ELSE loops'[k].pc \in {"sleep30", "selected"}
                /\ PersistingFetchReturns
       /\ Len(tasks') < Len(tasks) => PersistingFetchReturns]_vars

\* stop was called while the scheduled batch was at its first source and has
\* returned; the batch has gone through all its sources since and has
\* persisted the snapshot of the last one.
C24_Witness ==
    /\ hist.stopped
    /\ hist.inflight = 1
    /\ InBatch = {}
    /\ store[IterationOrder[Len(IterationOrder)]] /= <<>>

----------------------------------------------------------------------------
(* The requests and the scheduler's state (SpecRequests)                   *)

\* C27: the running flag and the registered jobs are changed only by start
\* and stop (and the loop thread start launches): every other step, that is
\* every step of a read request, of a status or health query, of a manual
\* full-batch or single-source trigger and of the threads the triggers start,
\* leaves both as they are.
C27_OnlyStartAndStopChangeScheduler ==
    [][loops' = loops /\ caller' = caller
       => sched'.running = sched.running /\ sched'.jobs = sched.jobs]_vars

\* With the scheduler running and its job registered, a status query has
\* just been answered while a read's fetch is in flight and a full-batch
\* trigger's thread is past its first source.
C27_Witness ==
    /\ sched.running /\ sched.jobs /= <<>>
    /\ call.op = "status"
    /\ rd.pc = "fetching"
    /\ \E k \in DOMAIN tasks : tasks[k].kind = "all" /\ tasks[k].i > 1

----------------------------------------------------------------------------
(* Reads beside writes in progress (SpecRace)                              *)

\* C23: the snapshot a read treats as current is the file of its source with
\* the greatest modification time, that is the one whose write completed
\* last, whatever the timestamps in the file names and whichever write began
\* first.
C23_CurrentIsLastCompletedWrite ==
    [][\A s \in Sources :
          ReadStep(s) /\ store[s] /= <<>> =>
             LET latest_file == IF rd'.pc = "fetching" THEN rd'.latest_file
                                                       ELSE resp'.latest_file
             IN /\ latest_file \in DOMAIN store[s]
                /\ \A j \in DOMAIN store[s] :
                      store[s][j].mtime <= store[s][latest_file].mtime]_vars

\* Two writes of one source raced: a read has just been served the snapshot
\* whose write began first and completed last, while the other snapshot,
\* complete as well, has the later timestamp in its name.
C23_Witness ==
    /\ resp.status = "ok" /\ resp.fetch = "not called"
    /\ \E j \in DOMAIN store[resp.src] :
          LET served == store[resp.src][resp.latest_file]
              other == store[resp.src][j]
          IN /\ other.body.kind = "list"
             /\ other.name > served.name
             /\ other.mtime < served.mtime

\* C30: a read never returns the content of a partially written snapshot:
\* the records of a response from the cache are the whole record list of a
\* completely written file, and every other successful response carries the
\* records the read's own fetch returned.
C30_NoPartialSnapshotServed ==
    resp.status = "ok" =>
        IF resp.data_source = "cache"
        THEN LET file == store[resp.src][resp.latest_file]
             IN /\ ~IsPartial(file)
                /\ file.body.kind \in {"list", "data"}
                /\ resp.records = file.body.recs
        ELSE resp.fetch = "returned records"

\* A read began and ended while the newest file of its source was still being
\* written: it found that file unparsable, fetched, and returned the records
\* of its own fetch.
C30_Witness ==
    /\ resp.status = "ok" /\ resp.data_source = "fresh"
    /\ resp.latest_file > 0
    /\ IsPartial(store[resp.src][resp.latest_file])

----------------------------------------------------------------------------
(* run_scraping_job's result (SpecBatch)                                   *)

\* C32: run_scraping_job never lets an exception of the fetch out and
\* returns True exactly when the fetch returned a value other than None
\* without raising: no batch and no single run ends by an exception, every
\* result a batch holds is True exactly when that source's fetch returned a
\* list, an empty list included, which is logged with record count 0, and
\* the result of a single run that has ended is the job's.
C32_SuccessIffFetchReturnedData ==
    /\ batch.pc /= "crashed" /\ single.pc /= "crashed"
    /\ \A o \in FetchOutcomes(now) :
          /\ run_scraping_job(o).returned
          /\ run_scraping_job(o).success <=> o.kind = "list"
          /\ o = Val("list", <<>>) => run_scraping_job(o).record_count = 0
    /\ \A j \in DOMAIN batch.results :
          /\ batch.results[j].success <=> batch.jobs[j].fetch = "list"
          /\ batch.jobs[j].fetch \in {"none", "raise"} => batch.jobs[j].record_count = 0
    /\ single.pc = "done" /\ single.ret => single.name \in Sources

\* A batch holds a success for a source whose fetch returned an empty list
\* (record count 0), a failure for one whose fetch returned None and a
\* failure for one whose fetch raised.
C32_Witness ==
    /\ Len(batch.results) >= 3
    /\ batch.jobs[1].fetch = "list" /\ batch.jobs[1].record_count = 0
    /\ batch.results[1].success
    /\ batch.jobs[2].fetch = "none" /\ ~batch.results[2].success
    /\ batch.jobs[3].fetch = "raise" /\ ~batch.results[3].success

----------------------------------------------------------------------------
(* Termination of a batch (SpecBatchFair)                                  *)

\* C31: when every fetch a batch calls eventually returns or raises, a batch
\* that has started ends, having run the job of each of the N sources and
\* built the summary that it logs.
C31_BatchTerminates ==
    batch.pc /= "idle" ~>
        /\ batch.pc = "done"
        /\ Len(batch.jobs) = N
        /\ Len(batch.successful_scrapers) + Len(batch.failed_scrapers) = N

\* A batch has ended although each of its N fetches raised.
C31_Witness ==
    /\ batch.pc = "done"
    /\ Len(batch.jobs) = N
    /\ \A j \in DOMAIN batch.jobs : batch.jobs[j].fetch = "raise"
    /\ Len(batch.failed_scrapers) = N

----------------------------------------------------------------------------
(* Invariants of the scheduler object (SpecSched)                          *)

\* C33: whenever the running flag is true a recurring job is registered, so
\* the scheduler's status never has running = true with no next run time.
C33_RunningHasJob ==
    sched.running =>
        /\ sched.jobs /= <<>>
        /\ get_scheduler_status.next_run /= NoNextRun

\* The loop threads that have not returned from run_scheduler.
AliveLoops == {k \in DOMAIN loops : Alive(k)}

\* C34: after any sequence of start and stop calls at most one recurring job
\* is registered and at most one loop thread is alive.
C34_OneJobOneLoopThread ==
    /\ Len(sched.jobs) <= 1
    /\ Cardinality(AliveLoops) <= 1

\* The scheduler was started, stopped and started again, and a third start
\* call has just been refused: one job is registered and, of the two loop
\* threads created, only the second is alive.
C34_Witness ==
    /\ Len(loops) = 2
    /\ AliveLoops = {2}
    /\ Len(sched.jobs) = 1
    /\ call.op = "start" /\ call.result /= "started"

----------------------------------------------------------------------------
(* The endpoint's names and the registry's keys (SpecTrigger)              *)

\* C35: the names the single-source trigger accepts are the keys of the
\* scheduler's registry: a request is accepted exactly when its name is a
\* key, and every thread started for a single source has a key as its name,
\* so run_single_scraper's unknown-name branch is not taken in such a thread
\* and the thread reaches run_scraping_job.
C35_EndpointNamesAreRegistryKeys ==
    /\ Names(valid_scrapers) = Sources
    /\ call.op = "run-single" => (call.code = 200 <=> call.arg \in Sources)
    /\ \A k \in DOMAIN tasks :
          tasks[k].kind = "single" => tasks[k].scraper_name \in Sources

\* The trigger for the last key of the registry has just been accepted and
\* its thread runs beside the thread of a trigger for the first key.
C35_Witness ==
    /\ call.op = "run-single" /\ call.code = 200
    /\ call.arg = Registry[N]
    /\ Len(tasks) = 2
    /\ tasks[1].kind = "single" /\ tasks[1].scraper_name = Registry[1]
    /\ tasks[2].kind = "single" /\ tasks[2].scraper_name = Registry[N]

============================================================================
